---- MODULE Spec2Model ----
(***************************************************************************)
(* NRCofactorClassifier (src/classifier.py): keyword and motif scoring of  *)
(* polymer chains and the exhaustive receptor/cofactor pairing search.     *)
(*                                                                         *)
(* Scores are Python floats built from 0.8, 1.0 and 0.5 and halved at most *)
(* twice; they are held here as integers in thousandths (0.8 = 800), which *)
(* is exact for every value the code can produce and orders them the same  *)
(* way the floats are ordered.  Python's None is the empty sequence and a  *)
(* present value v is <<v>>.  List indices are 1-based.                    *)
(***************************************************************************)
EXTENDS Integers, Sequences, FiniteSets, TLC

\* ------------------------------------------------------------ bounds
\* Largest number of polymer entities in an input record.
MaxEntities == 2

\* ------------------------------------------------- program constants
GenericWeight == 1000
SpecificWeight == 800
CofactorKeywordWeight == 800
MotifWeight == 500
ScoreCap == 1000
NRThreshold == 500
CofactorThreshold == 300

\* ------------------------------------------------------ keyword tables
nr_keywords ==
  << "nuclear receptor", "steroid receptor", "thyroid hormone receptor",
     "estrogen receptor", "androgen receptor", "glucocorticoid receptor",
     "mineralocorticoid receptor", "progesterone receptor",
     "peroxisome proliferator-activated receptor", "ppar",
     "retinoic acid receptor", "retinoid x receptor", "rar", "rxr",
     "liver x receptor", "lxr", "farnesoid x receptor", "fxr",
     "vitamin d receptor", "vdr", "thyroid hormone receptor", "tr",
     "hepatocyte nuclear factor", "hnf", "coup-tf", "nr2f",
     "testicular receptor", "tr2", "tr4", "tailless", "tlx",
     "photoreceptor cell-specific nuclear receptor", "pnr",
     "dosage-sensitive sex reversal", "dax1", "short heterodimer partner", "shp" >>

coactivator_keywords ==
  << "steroid receptor coactivator", "src-1", "src-2", "src-3", "src1", "src2", "src3",
     "nuclear receptor coactivator", "ncoa1", "ncoa2", "ncoa3", "grip1", "tif2", "actr",
     "creb-binding protein", "cbp", "p300", "ep300",
     "peroxisome proliferator-activated receptor gamma coactivator", "pgc-1", "pgc1",
     "pgc-1alpha", "pgc-1beta", "pgc1a", "pgc1b",
     "mediator", "trap", "drip", "arc", "activator",
     "transcriptional intermediary factor", "receptor-associated protein" >>

corepressor_keywords ==
  << "nuclear receptor corepressor", "ncor", "smrt", "cornr",
     "silencing mediator", "corepressor", "repressor",
     "alien", "trip15", "csx", "hairless" >>

generic_nr_terms == {"nuclear receptor", "steroid receptor"}

\* ------------------------------------------------------ string helpers
CharAt(s, k) == SubSeq(s, k, k)

UpperChars == "ABCDEFGHIJKLMNOPQRSTUVWXYZ"
LowerChars == "abcdefghijklmnopqrstuvwxyz"

\* str.lower() on one character
lower_char(c) ==
  IF \E k \in 1..Len(UpperChars) : CharAt(UpperChars, k) = c
  THEN CharAt(LowerChars, CHOOSE k \in 1..Len(UpperChars) : CharAt(UpperChars, k) = c)
  ELSE c

\* str.lower()
RECURSIVE lower(_)
lower(s) ==
  IF Len(s) = 0 THEN ""
  ELSE lower_char(CharAt(s, 1)) \o lower(SubSeq(s, 2, Len(s)))

\* Python's `keyword in text` on strings
Contains(keyword, text) ==
  \E k \in 1..(Len(text) - Len(keyword) + 1) :
     SubSeq(text, k, k + Len(keyword) - 1) = keyword

\* re.search('L..LL', sequence): '.' is any character but a newline
motif_found(sequence) ==
  \E k \in 1..(Len(sequence) - 4) :
     /\ CharAt(sequence, k) = "L"
     /\ CharAt(sequence, k + 1) # "\n"
     /\ CharAt(sequence, k + 2) # "\n"
     /\ CharAt(sequence, k + 3) = "L"
     /\ CharAt(sequence, k + 4) = "L"

Min(a, b) == IF a < b THEN a ELSE b

\* ------------------------------------------------------------ scorers
\* The keyword loop of score_nuclear_receptor after its first n keywords.
RECURSIVE nr_scan(_, _)
nr_scan(desc_lower, n) ==
  IF n = 0 THEN [score |-> 0, reasons |-> <<>>]
  ELSE LET prev == nr_scan(desc_lower, n - 1)
           keyword == nr_keywords[n]
       IN IF Contains(keyword, desc_lower)
          THEN IF keyword \in generic_nr_terms
               THEN [score |-> prev.score + GenericWeight,
                     reasons |-> Append(prev.reasons, "Generic NR term: " \o keyword)]
               ELSE [score |-> prev.score + SpecificWeight,
                     reasons |-> Append(prev.reasons, "Specific NR: " \o keyword)]
          ELSE prev

\* Variant: the running total is returned without min(score, 1.0).
score_nuclear_receptor_unclamped(description) ==
  LET r == nr_scan(lower(description), Len(nr_keywords))
  IN [score |-> r.score, reasons |-> r.reasons]

score_nuclear_receptor(description) ==
  LET r == nr_scan(lower(description), Len(nr_keywords))
  IN [score |-> Min(r.score, ScoreCap), reasons |-> r.reasons]

\* One keyword loop of score_cofactor after the first n keywords of a list.
RECURSIVE keyword_scan(_, _, _, _)
keyword_scan(keywords, label, desc_lower, n) ==
  IF n = 0 THEN [score |-> 0, reasons |-> <<>>]
  ELSE LET prev == keyword_scan(keywords, label, desc_lower, n - 1)
           keyword == keywords[n]
       IN IF Contains(keyword, desc_lower)
          THEN [score |-> prev.score + CofactorKeywordWeight,
                reasons |-> Append(prev.reasons, label \o keyword)]
          ELSE prev

motif_reason == "Corepressor sequence motif 'LXXLL' found"

\* Variant: the pattern is written with literal X's ('LXXLL').
sequence_has_motif_literal(sequence) ==
  /\ Len(sequence) > 0
  /\ \E k \in 1..(Len(sequence) - 4) : SubSeq(sequence, k, k + 4) = "LXXLL"

\* Variant: the pattern is one character short ('L..L').
sequence_has_motif_short(sequence) ==
  /\ Len(sequence) > 0
  /\ \E k \in 1..(Len(sequence) - 3) :
        /\ CharAt(sequence, k) = "L"
        /\ CharAt(sequence, k + 1) # "\n"
        /\ CharAt(sequence, k + 2) # "\n"
        /\ CharAt(sequence, k + 3) = "L"

\* `sequence and re.search('L..LL', sequence)`
sequence_has_motif(sequence) ==
  Len(sequence) > 0 /\ motif_found(sequence)

\* The running totals and reasons of score_cofactor before its final decision.
cofactor_totals(description, sequence) ==
  LET desc_lower == lower(description)
      co == keyword_scan(coactivator_keywords, "Coactivator keyword: ", desc_lower,
                         Len(coactivator_keywords))
      cr == keyword_scan(corepressor_keywords, "Corepressor keyword: ", desc_lower,
                         Len(corepressor_keywords))
      motif == sequence_has_motif(sequence)
  IN [coactivator_score |-> co.score + (IF motif THEN MotifWeight ELSE 0),
      corepressor_score |-> cr.score,
      reasons |-> co.reasons \o cr.reasons \o (IF motif THEN <<motif_reason>> ELSE <<>>)]

\* Variant: a tie of the two totals goes to the coactivator (>= for >).
cofactor_decision_tie_coactivator(t) ==
  IF t.coactivator_score >= t.corepressor_score
  THEN [score |-> Min(t.coactivator_score, ScoreCap), type |-> "coactivator",
        reasons |-> t.reasons]
  ELSE IF t.corepressor_score > 0
  THEN [score |-> Min(t.corepressor_score, ScoreCap), type |-> "corepressor",
        reasons |-> t.reasons]
  ELSE [score |-> 0, type |-> "unknown", reasons |-> t.reasons]

\* "determine type and score"
cofactor_decision(t) ==
  IF t.coactivator_score > t.corepressor_score
  THEN [score |-> Min(t.coactivator_score, ScoreCap), type |-> "coactivator",
        reasons |-> t.reasons]
  ELSE IF t.corepressor_score > 0
  THEN [score |-> Min(t.corepressor_score, ScoreCap), type |-> "corepressor",
        reasons |-> t.reasons]
  ELSE [score |-> 0, type |-> "unknown", reasons |-> t.reasons]

score_cofactor(description, sequence) ==
  cofactor_decision(cofactor_totals(description, sequence))

\* ------------------------------------------------------------- inputs
\* auth_asym_ids lists an entity may carry (possibly empty, possibly repeating
\* an id another entity carries).
ChainIdLists == { <<>>, <<"A">>, <<"B">>, <<"A", "B">> }

\* (pdbx_description, pdbx_seq_one_letter_code_can) of the entities tried.
EntityTexts ==
  { <<"Estrogen Receptor", "">>,
    <<"nuclear receptor coactivator", "">>,
    <<"steroid receptor coactivator", "">>,
    <<"steroid receptor coactivator", "MKLLELLAS">>,
    <<"rxr cbp", "">>,
    <<"ncor cbp", "">>,
    <<"kinase", "">>,
    <<"kinase", "MKLLELLAS">>,
    <<"kinase", "MKLAELS">>,
    <<"p300 cbp smrt ncor", "MKLLELLAS">> }

EntityType == "Polypeptide(L)"

Entities ==
  { [auth_asym_ids |-> ids, pdbx_description |-> t[1], type |-> EntityType,
     pdbx_seq_one_letter_code_can |-> t[2]] : ids \in ChainIdLists, t \in EntityTexts }

RECURSIVE SeqsUpTo(_, _)
SeqsUpTo(S, n) ==
  IF n = 0 THEN { <<>> }
  ELSE LET shorter == SeqsUpTo(S, n - 1)
       IN shorter \cup { Append(q, x) : q \in { r \in shorter : Len(r) = n - 1 }, x \in S }

\* What load_pdb_data can return: None (no file), or a record with its
\* polymer entities (an empty list also stands for a record without an
\* 'entry' or 'polymer_entities' section).
Records ==
  { [found |-> FALSE, polymer_entities |-> <<>>] } \cup
  { [found |-> TRUE, polymer_entities |-> es] : es \in SeqsUpTo(Entities, MaxEntities) }

\* str.lower() tabulated once over the strings the input entities carry.
InputStrings == { t[1] : t \in EntityTexts } \cup { EntityType }
lowered == [s \in InputStrings |-> lower(s)]

\* --------------------------------------------------- extract_chain_info
\* The inner loop: one ChainInfo per chain id of an entity.
RECURSIVE entity_chains(_, _)
entity_chains(entity, n) ==
  IF n = 0 THEN <<>>
  ELSE Append(entity_chains(entity, n - 1),
              [chain_id |-> entity.auth_asym_ids[n],
               description |-> lowered[entity.pdbx_description],
               entity_type |-> lowered[entity.type],
               entity_sequence |-> entity.pdbx_seq_one_letter_code_can])

\* The outer loop after the first n entities.
RECURSIVE extract_scan(_, _)
extract_scan(polymer_entities, n) ==
  IF n = 0 THEN <<>>
  ELSE LET entity == polymer_entities[n]
       IN IF Len(entity.auth_asym_ids) = 0
          THEN extract_scan(polymer_entities, n - 1)
          ELSE extract_scan(polymer_entities, n - 1)
                 \o entity_chains(entity, Len(entity.auth_asym_ids))

extract_chain_info(data) ==
  IF Len(data.polymer_entities) = 0 THEN <<>>
  ELSE extract_scan(data.polymer_entities, Len(data.polymer_entities))

\* ------------------------------------------------------ classify_complex
VARIABLES
  pc,         \* "idle" | "loop" (inside the double loop) | "done" (returned)
  data,       \* what load_pdb_data returned
  chains,     \* extract_chain_info(data)
  i, j,       \* the loop indices (1-based)
  best_pair,  \* the best_pair dict
  locals,     \* the values computed by the last pair iteration, <<>> before it
  result      \* the ClassificationResult returned, <<>> while running

vars == <<pc, data, chains, i, j, best_pair, locals, result>>

\* best_pair as created: no receptor, no cofactor, no "cofactor_type" key.
\* The scorers tabulated once over the chains the inputs can produce: a call
\* score_nuclear_receptor(d) is nr_scores[d], score_cofactor(d, q) is
\* cofactor_scores[<<d, q>>].
ChainTexts == { <<lowered[t[1]], t[2]>> : t \in EntityTexts }
nr_scores == [d \in { t[1] : t \in ChainTexts } |-> score_nuclear_receptor(d)]
cofactor_scores == [t \in ChainTexts |-> score_cofactor(t[1], t[2])]

initial_best_pair ==
  [receptor |-> <<>>, cofactor |-> <<>>, nr_score |-> 0, cofactor_score |-> 0,
   confidence |-> 0, nr_reasons |-> <<>>, cofactor_reasons |-> <<>>,
   cofactor_type |-> <<>>]

early_result(reason) ==
  [is_nr_cofactor_complex |-> FALSE, receptor_chain |-> <<>>, cofactor_chain |-> <<>>,
   receptor_type |-> <<>>, cofactor_type |-> <<>>, confidence_score |-> 0,
   reasons |-> <<reason>>]

\* Variant: the same-chain penalty is not subtracted.
pair_scores_no_penalty(receptor_candidate, cofactor_candidate) ==
  LET nr == nr_scores[receptor_candidate.description]
      cof == cofactor_scores[<<cofactor_candidate.description,
                               cofactor_candidate.entity_sequence>>]
      pen == cofactor_scores[<<receptor_candidate.description,
                               receptor_candidate.entity_sequence>>]
  IN [nr |-> nr, cof |-> cof, pen |-> pen, nr_score |-> nr.score,
      confidence |-> (nr.score + cof.score) \div 2]

\* Variant: the confidence is the sum of the two scores, not their mean.
pair_scores_sum(receptor_candidate, cofactor_candidate) ==
  LET nr == nr_scores[receptor_candidate.description]
      cof == cofactor_scores[<<cofactor_candidate.description,
                               cofactor_candidate.entity_sequence>>]
      pen == cofactor_scores[<<receptor_candidate.description,
                               receptor_candidate.entity_sequence>>]
      nr_score == nr.score - pen.score \div 2
  IN [nr |-> nr, cof |-> cof, pen |-> pen, nr_score |-> nr_score,
      confidence |-> nr_score + cof.score]

\* The scoring of one ordered pair: the three scorer calls, the penalty
\* (nr_score -= penalty_score * 0.5) and the confidence.
pair_scores(receptor_candidate, cofactor_candidate) ==
  LET nr == nr_scores[receptor_candidate.description]
      cof == cofactor_scores[<<cofactor_candidate.description,
                               cofactor_candidate.entity_sequence>>]
      pen == cofactor_scores[<<receptor_candidate.description,
                               receptor_candidate.entity_sequence>>]
      nr_score == nr.score - pen.score \div 2
  IN [nr |-> nr, cof |-> cof, pen |-> pen, nr_score |-> nr_score,
      confidence |-> (nr_score + cof.score) \div 2]

\* Variant: a pair that only equals the best confidence replaces it (>= for >).
improves_or_equals(confidence, best_confidence) == confidence >= best_confidence

\* `if confidence > best_pair["confidence"]`
improves(confidence, best_confidence) == confidence > best_confidence

\* `best_pair["nr_score"] >= 0.5 and best_pair["cofactor_score"] >= 0.3`
is_complex(bp) ==
  bp.nr_score >= NRThreshold /\ bp.cofactor_score >= CofactorThreshold

Digit2(n) == IF n < 10 THEN "0" \o ToString(n) ELSE ToString(n)

\* f"{x:.2f}" of a score held in thousandths (every score is a multiple of 0.05)
fmt2(x) ==
  LET a == IF x < 0 THEN 0 - x ELSE x
  IN (IF x < 0 THEN "-" ELSE "") \o ToString(a \div 1000) \o "." \o Digit2((a % 1000) \div 10)

RECURSIVE prefixed(_, _)
prefixed(prefix, reasons) ==
  IF Len(reasons) = 0 THEN <<>>
  ELSE <<prefix \o reasons[1]>> \o prefixed(prefix, Tail(reasons))

\* The reasons list assembled after the loop.
all_reasons(bp, chain_list) ==
  (IF bp.receptor # <<>>
     THEN prefixed("Receptor (" \o chain_list[bp.receptor[1]].chain_id \o "): ", bp.nr_reasons)
     ELSE <<>>)
  \o (IF bp.cofactor # <<>>
     THEN prefixed("Cofactor (" \o chain_list[bp.cofactor[1]].chain_id \o "): ",
                   bp.cofactor_reasons)
     ELSE <<>>)
  \o (IF ~is_complex(bp) /\ bp.confidence > 0
     THEN << "Failed threshold check: NR_score(" \o fmt2(bp.nr_score)
             \o ") >= 0.5, Cofactor_score(" \o fmt2(bp.cofactor_score) \o ") >= 0.3" >>
     ELSE <<>>)

final_result(bp, chain_list) ==
  [is_nr_cofactor_complex |-> is_complex(bp),
   receptor_chain |-> IF bp.receptor # <<>>
                      THEN <<chain_list[bp.receptor[1]].chain_id>> ELSE <<>>,
   cofactor_chain |-> IF bp.cofactor # <<>>
                      THEN <<chain_list[bp.cofactor[1]].chain_id>> ELSE <<>>,
   receptor_type |-> IF bp.receptor # <<>>
                     THEN <<chain_list[bp.receptor[1]].description>> ELSE <<>>,
   cofactor_type |-> IF bp.cofactor # <<>> THEN bp.cofactor_type ELSE <<>>,
   confidence_score |-> bp.confidence,
   reasons |-> all_reasons(bp, chain_list)]

Init ==
  /\ pc = "idle"
  /\ data = [found |-> FALSE, polymer_entities |-> <<>>]
  /\ chains = <<>>
  /\ i = 1
  /\ j = 1
  /\ best_pair = initial_best_pair
  /\ locals = <<>>
  /\ result = <<>>

\* classify_complex up to the loop: load, extract, the two early returns.
classify_complex_begin(d) ==
  /\ pc = "idle"
  /\ data' = d
  /\ i' = 1
  /\ j' = 1
  /\ best_pair' = initial_best_pair
  /\ locals' = <<>>
  /\ IF ~d.found
     THEN /\ chains' = <<>>
          /\ result' = <<early_result("Data not available")>>
          /\ pc' = "done"
     ELSE LET cs == extract_chain_info(d)
          IN /\ chains' = cs
             /\ IF Len(cs) < 2
                THEN /\ result' = <<early_result("Insufficient number of chains")>>
                     /\ pc' = "done"
                ELSE /\ result' = <<>>
                     /\ pc' = "loop"

\* One iteration of the inner loop body, for the pair (i, j).
pair_iteration ==
  /\ pc = "loop"
  /\ i <= Len(chains)
  /\ IF i = j
     THEN UNCHANGED <<best_pair, locals>>
     ELSE LET s == pair_scores(chains[i], chains[j])
          IN /\ locals' = << [receptor_candidate |-> i, cofactor_candidate |-> j,
                              nr |-> s.nr, cof |-> s.cof, pen |-> s.pen,
                              nr_score |-> s.nr_score, confidence |-> s.confidence] >>
             /\ IF improves(s.confidence, best_pair.confidence)
                THEN best_pair' =
                       [receptor |-> <<i>>, cofactor |-> <<j>>,
                        nr_score |-> s.nr_score, cofactor_score |-> s.cof.score,
                        confidence |-> s.confidence, nr_reasons |-> s.nr.reasons,
                        cofactor_reasons |-> s.cof.reasons,
                        cofactor_type |-> <<s.cof.type>>]
                ELSE UNCHANGED best_pair
  /\ IF j < Len(chains)
     THEN /\ j' = j + 1
          /\ i' = i
     ELSE /\ j' = 1
          /\ i' = i + 1
  /\ UNCHANGED <<pc, data, chains, result>>

\* After the loop: the verdict, the reasons, the returned result.
classify_complex_return ==
  /\ pc = "loop"
  /\ i > Len(chains)
  /\ result' = <<final_result(best_pair, chains)>>
  /\ pc' = "done"
  /\ UNCHANGED <<data, chains, i, j, best_pair, locals>>

\* batch_classify: the call has returned, its result is appended (the list is
\* not kept here) and the loop goes on to the next pdb_id with a fresh call.
batch_classify_next ==
  /\ pc = "done"
  /\ pc' = "idle"
  /\ data' = [found |-> FALSE, polymer_entities |-> <<>>]
  /\ chains' = <<>>
  /\ i' = 1
  /\ j' = 1
  /\ best_pair' = initial_best_pair
  /\ locals' = <<>>
  /\ result' = <<>>

\* A call of classify_complex on any record the loader can return.
classify_complex_call ==
  /\ pc = "idle"
  /\ \E d \in Records : classify_complex_begin(d)

Next ==
  \/ classify_complex_call
  \/ pair_iteration
  \/ classify_complex_return
  \/ batch_classify_next

Spec == Init /\ [][Next]_vars

\* ============================================================ properties
\* Vocabulary of the properties below.  The scores of a chain are read from
\* the scorers, not from what the pairing loop stored.
Returned == pc = "done" /\ result # <<>>
LoopFinished == (pc = "loop" /\ i > Len(chains)) \/ (pc = "done" /\ Len(chains) >= 2)
Scored == locals # <<>>

NRScoreOf(c) == nr_scores[c.description].score
CofactorOf(c) == cofactor_scores[<<c.description, c.entity_sequence>>]
PenalizedNRScoreOf(c) == NRScoreOf(c) - CofactorOf(c).score \div 2
ConfidenceOf(a, b) == (PenalizedNRScoreOf(chains[a]) + CofactorOf(chains[b]).score) \div 2

OrderedPairs == { p \in (1..Len(chains)) \X (1..Len(chains)) : p[1] # p[2] }
PositivePairExists == \E p \in OrderedPairs : ConfidenceOf(p[1], p[2]) > 0
ScanBefore(p, q) == p[1] < q[1] \/ (p[1] = q[1] /\ p[2] <= q[2])
\* (r, c) has the maximum confidence of all ordered pairs and comes first in
\* scan order among the pairs that reach it.
IsFirstMaximum(r, c) ==
  LET m == ConfidenceOf(r, c)
  IN \A p \in OrderedPairs :
        LET k == ConfidenceOf(p[1], p[2])
        IN k <= m /\ (k = m => ScanBefore(<<r, c>>, p))

AnyKeyword(keywords, text) ==
  \E n \in 1..Len(keywords) : Contains(keywords[n], text)
HasNRKeyword == [t \in ChainTexts |-> AnyKeyword(nr_keywords, t[1])]
HasCofactorKeyword ==
  [t \in ChainTexts |-> AnyKeyword(coactivator_keywords \o corepressor_keywords, t[1])]
\* an L, two residues, two L's somewhere in the sequence
HasLxxLL ==
  [t \in ChainTexts |->
     \E k \in 1..(Len(t[2]) - 4) :
        SubSeq(t[2], k, k) = "L" /\ SubSeq(t[2], k + 3, k + 4) = "LL"]
RunningTotals == [t \in ChainTexts |-> cofactor_totals(t[1], t[2])]

TextOf(c) == <<c.description, c.entity_sequence>>
ReceptorCandidate == chains[locals[1].receptor_candidate]
CofactorCandidate == chains[locals[1].cofactor_candidate]

\* ---- C1
\* C1: whenever classify_complex returns is_nr_cofactor_complex = true, the
\* receptor_chain and cofactor_chain it returns are both present and are
\* different chain-id values.
C1_ComplexHasTwoDistinctChainIds ==
  (Returned /\ result[1].is_nr_cofactor_complex) =>
     /\ result[1].receptor_chain # <<>>
     /\ result[1].cofactor_chain # <<>>
     /\ result[1].receptor_chain # result[1].cofactor_chain

\* ---- C2
\* C2: for a record with at least two chains the returned verdict is true
\* exactly when a pair was retained, the retained receptor's nuclear-receptor
\* score minus half its own cofactor score is >= 0.5, and the retained
\* cofactor's cofactor score is >= 0.3.
C2_VerdictIsThresholdOnBestPair ==
  (Returned /\ Len(chains) >= 2) =>
     (result[1].is_nr_cofactor_complex <=>
        /\ best_pair.receptor # <<>>
        /\ best_pair.cofactor # <<>>
        /\ PenalizedNRScoreOf(chains[best_pair.receptor[1]]) >= NRThreshold
        /\ CofactorOf(chains[best_pair.cofactor[1]]).score >= CofactorThreshold)

\* A positive verdict on a retained receptor that carries a penalty.
C2_Witness ==
  /\ Returned /\ Len(chains) >= 2
  /\ result[1].is_nr_cofactor_complex
  /\ CofactorOf(chains[best_pair.receptor[1]]).score > 0

\* ---- C3
\* C3: every score returned by score_nuclear_receptor and by score_cofactor
\* lies in [0.0, 1.0].
C3_ScoresWithinUnitInterval ==
  Scored =>
     /\ locals[1].nr.score \in 0..ScoreCap
     /\ locals[1].cof.score \in 0..ScoreCap
     /\ locals[1].pen.score \in 0..ScoreCap

\* Scores were returned for totals above 1.0: several receptor keywords, and
\* several cofactor keywords together with the motif.
C3_Witness ==
  /\ Scored
  /\ Len(locals[1].nr.reasons) >= 2
  /\ RunningTotals[TextOf(CofactorCandidate)].coactivator_score > ScoreCap
  /\ HasLxxLL[TextOf(CofactorCandidate)]

\* ---- C4
\* C4 (as claimed): a description with no keyword of a scorer's keyword set
\* gets score 0.0 and no reasons from that scorer, for score_cofactor with
\* any sequence.
C4_NoKeywordScoresZero ==
  Scored =>
     /\ ~HasNRKeyword[TextOf(ReceptorCandidate)] =>
           (locals[1].nr.score = 0 /\ locals[1].nr.reasons = <<>>)
     /\ ~HasCofactorKeyword[TextOf(CofactorCandidate)] =>
           (locals[1].cof.score = 0 /\ locals[1].cof.reasons = <<>>)
     /\ ~HasCofactorKeyword[TextOf(ReceptorCandidate)] =>
           (locals[1].pen.score = 0 /\ locals[1].pen.reasons = <<>>)

\* C4 (amended): a description with no nuclear-receptor keyword gets score
\* 0.0 and no reasons from score_nuclear_receptor; a description with no
\* cofactor keyword gets score 0.0 and no reasons from score_cofactor when
\* the sequence is empty or holds no L..LL motif.
C4_NoKeywordNoMotifScoresZero ==
  Scored =>
     /\ ~HasNRKeyword[TextOf(ReceptorCandidate)] =>
           (locals[1].nr.score = 0 /\ locals[1].nr.reasons = <<>>)
     /\ (~HasCofactorKeyword[TextOf(CofactorCandidate)]
           /\ ~HasLxxLL[TextOf(CofactorCandidate)]) =>
           (locals[1].cof.score = 0 /\ locals[1].cof.reasons = <<>>)
     /\ (~HasCofactorKeyword[TextOf(ReceptorCandidate)]
           /\ ~HasLxxLL[TextOf(ReceptorCandidate)]) =>
           (locals[1].pen.score = 0 /\ locals[1].pen.reasons = <<>>)

\* A keyword-free chain with a non-empty, motif-free sequence was scored in
\* both roles.
C4_Witness ==
  /\ Scored
  /\ ~HasNRKeyword[TextOf(ReceptorCandidate)]
  /\ ~HasCofactorKeyword[TextOf(CofactorCandidate)]
  /\ CofactorCandidate.entity_sequence # ""
  /\ ~HasLxxLL[TextOf(CofactorCandidate)]

\* ---- C5
\* The record of the example: exactly two chains, A "estrogen receptor" and
\* B "nuclear receptor coactivator", both with an empty sequence.
C5_Record ==
  /\ Len(chains) = 2
  /\ chains[1].chain_id = "A" /\ chains[1].description = "estrogen receptor"
  /\ chains[1].entity_sequence = ""
  /\ chains[2].chain_id = "B" /\ chains[2].description = "nuclear receptor coactivator"
  /\ chains[2].entity_sequence = ""

\* C5 (as claimed): on that record chain A's nuclear-receptor score is 0.8
\* with penalty 0, chain B's cofactor score is 0.8 with subtype coactivator,
\* and the result has confidence 0.8, verdict true, receptor A, cofactor B.
C5_ExampleScoresPointEight ==
  (Returned /\ C5_Record) =>
     /\ NRScoreOf(chains[1]) = 800
     /\ CofactorOf(chains[1]).score = 0
     /\ CofactorOf(chains[2]).score = 800
     /\ CofactorOf(chains[2]).type = "coactivator"
     /\ result[1].confidence_score = 800
     /\ result[1].is_nr_cofactor_complex
     /\ result[1].receptor_chain = <<"A">>
     /\ result[1].cofactor_chain = <<"B">>

\* C5 (amended): on that record chain A's nuclear-receptor score is 1.0
\* ("estrogen receptor" and "tr" both match, 1.6 clamped) with penalty 0,
\* chain B's cofactor score is 1.0 ("nuclear receptor coactivator" and
\* "activator" both match) with subtype coactivator, and the result has
\* confidence 1.0, verdict true, receptor A, cofactor B.
C5_ExampleScoresOne ==
  (Returned /\ C5_Record) =>
     /\ NRScoreOf(chains[1]) = 1000
     /\ CofactorOf(chains[1]).score = 0
     /\ CofactorOf(chains[2]).score = 1000
     /\ CofactorOf(chains[2]).type = "coactivator"
     /\ best_pair.nr_score = 1000
     /\ best_pair.cofactor_score = 1000
     /\ result[1].confidence_score = 1000
     /\ result[1].is_nr_cofactor_complex
     /\ result[1].receptor_chain = <<"A">>
     /\ result[1].cofactor_chain = <<"B">>
     /\ result[1].cofactor_type = <<"coactivator">>

C5_Witness == Returned /\ C5_Record /\ data.found

\* ---- C6
C6_Description == "steroid receptor coactivator"
C6_Sequence == "MKLLELLAS"
C6_KeywordReasons ==
  << "Coactivator keyword: steroid receptor coactivator",
     "Coactivator keyword: activator" >>

\* C6 (as claimed): score_cofactor("steroid receptor coactivator", "") is
\* coactivator with score 0.8; with sequence "MKLLELLAS" it is coactivator
\* with score 1.0 and the same reasons followed by one motif reason.
C6_EmptySequenceScoresPointEight ==
  (Scored /\ CofactorCandidate.description = C6_Description) =>
     /\ CofactorCandidate.entity_sequence = "" =>
           (locals[1].cof.type = "coactivator" /\ locals[1].cof.score = 800)
     /\ CofactorCandidate.entity_sequence = C6_Sequence =>
           /\ locals[1].cof.type = "coactivator"
           /\ locals[1].cof.score = 1000
           /\ locals[1].cof.reasons =
                cofactor_scores[<<C6_Description, "">>].reasons \o <<motif_reason>>

\* C6 (amended): score_cofactor("steroid receptor coactivator", "") is
\* coactivator with score 1.0 (two keywords match, 1.6 clamped); with
\* sequence "MKLLELLAS" it is coactivator with score min(1.6+0.5, 1.0) = 1.0
\* and the empty-sequence reasons followed by exactly one motif reason.
C6_EmptySequenceScoresOne ==
  (Scored /\ CofactorCandidate.description = C6_Description) =>
     /\ CofactorCandidate.entity_sequence = "" =>
           /\ locals[1].cof.type = "coactivator"
           /\ locals[1].cof.score = 1000
           /\ locals[1].cof.reasons = C6_KeywordReasons
     /\ CofactorCandidate.entity_sequence = C6_Sequence =>
           /\ locals[1].cof.type = "coactivator"
           /\ locals[1].cof.score = 1000
           /\ locals[1].cof.reasons = C6_KeywordReasons \o <<motif_reason>>
           /\ locals[1].cof.reasons =
                cofactor_scores[<<C6_Description, "">>].reasons \o <<motif_reason>>

C6_Witness ==
  /\ Scored
  /\ CofactorCandidate.description = C6_Description
  /\ CofactorCandidate.entity_sequence = C6_Sequence
  /\ Len(locals[1].cof.reasons) = 3

\* ---- C7
\* What score_cofactor returned for a chain agrees with the tie-break on the
\* chain's unclamped running totals.
TieBreakHolds(ret, totals) ==
  /\ (totals.coactivator_score = totals.corepressor_score
        /\ totals.coactivator_score > 0) =>
        (ret.type = "corepressor" /\ ret.score = Min(totals.corepressor_score, ScoreCap))
  /\ ret.type = "coactivator" => totals.coactivator_score > totals.corepressor_score

\* C7: when the coactivator and corepressor running totals are equal and
\* positive, score_cofactor returns "corepressor" with the clamped corepressor
\* total; it returns "coactivator" only when the unclamped coactivator total
\* strictly exceeds the unclamped corepressor total.
C7_TieGoesToCorepressor ==
  Scored =>
     /\ TieBreakHolds(locals[1].cof, RunningTotals[TextOf(CofactorCandidate)])
     /\ TieBreakHolds(locals[1].pen, RunningTotals[TextOf(ReceptorCandidate)])

\* A chain whose two totals tie at a positive value was scored as cofactor.
C7_Witness ==
  /\ Scored
  /\ RunningTotals[TextOf(CofactorCandidate)].coactivator_score
       = RunningTotals[TextOf(CofactorCandidate)].corepressor_score
  /\ RunningTotals[TextOf(CofactorCandidate)].corepressor_score > 0
  /\ locals[1].cof.type = "corepressor"

\* ---- C8
NoPositivePair == \A p \in OrderedPairs : ConfidenceOf(p[1], p[2]) <= 0

\* C8: for a record with at least two chains in which no ordered pair of
\* distinct chains has positive confidence, classify_complex returns verdict
\* false, confidence 0.0, no reasons, and no receptor chain, cofactor chain,
\* receptor type or cofactor type.
C8_NoEvidenceGivesEmptyResult ==
  (Returned /\ Len(chains) >= 2 /\ NoPositivePair) =>
     result[1] = [is_nr_cofactor_complex |-> FALSE, receptor_chain |-> <<>>,
                  cofactor_chain |-> <<>>, receptor_type |-> <<>>,
                  cofactor_type |-> <<>>, confidence_score |-> 0, reasons |-> <<>>]

C8_Witness ==
  /\ Returned /\ Len(chains) >= 2 /\ NoPositivePair
  /\ locals # <<>>

\* ---- C9
\* C9: once the double loop has finished and some ordered pair of distinct
\* chains has positive confidence, the retained pair is the first pair in
\* scan order among those of maximum confidence, and the stored confidence,
\* receptor score, cofactor score, subtype and reasons are that pair's.
C9_RetainedPairIsFirstMaximum ==
  (LoopFinished /\ PositivePairExists) =>
     /\ best_pair.receptor # <<>>
     /\ best_pair.cofactor # <<>>
     /\ LET r == best_pair.receptor[1]
            c == best_pair.cofactor[1]
        IN /\ r # c
           /\ IsFirstMaximum(r, c)
           /\ best_pair.confidence = ConfidenceOf(r, c)
           /\ best_pair.nr_score = PenalizedNRScoreOf(chains[r])
           /\ best_pair.cofactor_score = CofactorOf(chains[c]).score
           /\ best_pair.cofactor_type = <<CofactorOf(chains[c]).type>>
           /\ best_pair.nr_reasons = nr_scores[chains[r].description].reasons
           /\ best_pair.cofactor_reasons = CofactorOf(chains[c]).reasons

\* The loop finished on a record where another pair shares the maximum and
\* the retained orientation has the later chain as receptor.
C9_Witness ==
  /\ LoopFinished /\ PositivePairExists
  /\ best_pair.receptor # <<>>
  /\ best_pair.receptor[1] > best_pair.cofactor[1]
  /\ \E p \in OrderedPairs :
        /\ p # <<best_pair.receptor[1], best_pair.cofactor[1]>>
        /\ ConfidenceOf(p[1], p[2]) = best_pair.confidence

\* ---- C10
QualifyingPairExists ==
  \E p \in OrderedPairs :
     /\ PenalizedNRScoreOf(chains[p[1]]) >= NRThreshold
     /\ CofactorOf(chains[p[2]]).score >= CofactorThreshold

\* C10: for a record with at least two chains, if some ordered pair of
\* distinct chains has penalized receptor score >= 0.5 and cofactor score
\* >= 0.3, classify_complex returns is_nr_cofactor_complex = true.
C10_QualifyingPairIsAccepted ==
  (Returned /\ Len(chains) >= 2 /\ QualifyingPairExists) =>
     result[1].is_nr_cofactor_complex

====
